---- MODULE Spec2Model ----
(***************************************************************************)
(* ESP_ticker: the debug-output macros of Debug.h and the global           *)
(* declarations of ESP_ticker.h (display configuration, scroll-effect      *)
(* catalog, runtime state pool).                                           *)
(*                                                                         *)
(* The state machine has two phases.  Startup: the objects with dynamic    *)
(* initializers are initialized in the order of their definitions          *)
(* (P, lastReset, ntpTimer, noWords); everything else already holds its    *)
(* zero- or constant-initialized value.  Running: the application invokes  *)
(* the debug macros, stores into the cells of the state pool and sets the  *)
(* effect selectors.  The serial transport (Serial, the Arduino core's     *)
(* HardwareSerial) is the environment: a write is accepted whole or        *)
(* refused, the UART drains the output buffer byte by byte, and flush      *)
(* waits until the buffer is drained.                                      *)
(***************************************************************************)
EXTENDS Integers, Sequences, FiniteSets, TLC

VARIABLES
    pc,          \* startup position: the next object to initialize, or "run"
    bootMillis,  \* the value millis() returned to ntpTimer's initializer
    P,           \* the display object
    effect,      \* textEffect_t effect[]
    inFX, outFX, \* uint8_t inFX, outFX
    pool,        \* the runtime state pool: cell name -> value
    txBuffer,    \* Serial: bytes accepted and not yet transmitted
    console,     \* Serial: bytes transmitted to the serial console
    offered,     \* history: every byte a debug macro handed to Serial
    accepted,    \* history: every byte Serial accepted
    last,        \* the last application operation and what it did
    nOps         \* number of application operations so far

vars == <<pc, bootMillis, P, effect, inFX, outFX, pool, txBuffer, console,
          offered, accepted, last, nOps>>

----------------------------------------------------------------------------
(* Bounds of the model *)

MaxOps == 2

\* Argument lists the debug macros are invoked with, one byte per
\* argument; PCT is the conversion specification of a printf format.
PCT == "%"
PrintArgs == {<<"a">>, <<"b", "a">>}
PrintlnArgs == PrintArgs \cup {<<>>}
PrintfArgs == {<<"a">>, <<PCT, "b">>}

\* Texts the application stores into a character array or a String.
Texts == {<<"a">>, <<"b", "a">>}

\* The value the application stores into an integer cell.
IntSamples == {255}

\* A uint32_t is kept as its two 16-bit halves: hi * 2^16 + lo.
U32(hi, lo) == [hi |-> hi, lo |-> lo]

\* The value the application stores into a uint32_t cell: 2^32 - 1.
U32Samples == {U32(65535, 65535)}

\* Clock values millis() may return during static initialization:
\* 5, 2^32 - 30000 and 2^32 - 1.
ClockValues == {U32(0, 5), U32(65535, 35536), U32(65535, 65535)}

----------------------------------------------------------------------------
(* ESP_ticker.h: display configuration *)

HARDWARE_TYPE == "FC16_HW"
MAX_DEVICES == 8
MAX_SPEED == 50
CS_PIN == 15

LOCAL_SIZE == 255
NEWS_SIZE == 512
JSON_BUFF_MAX == 255
MAX_NO_NO_WORDS == 20

\* The MD_Parola object holds what its constructor was given.
MD_Parola(hw, csPin, numDevices) ==
    [hardware |-> hw, csPin |-> csPin, numDevices |-> numDevices]

\* Zero-initialized storage of P before its constructor has run.
P_zero == [hardware |-> "", csPin |-> 0, numDevices |-> 0]

P_init_swapped == MD_Parola(HARDWARE_TYPE, MAX_DEVICES, CS_PIN)
P_init == MD_Parola(HARDWARE_TYPE, CS_PIN, MAX_DEVICES)

----------------------------------------------------------------------------
(* ESP_ticker.h: scroll-effect catalog *)

effect_init_with_scan_horiz ==
    << "PA_PRINT", "PA_SCAN_HORIZ", "PA_SCROLL_LEFT", "PA_WIPE",
       "PA_SCROLL_UP_LEFT", "PA_SCROLL_UP", "PA_OPENING_CURSOR", "PA_GROW_UP",
       "PA_MESH", "PA_SCROLL_UP_RIGHT", "PA_CLOSING", "PA_RANDOM",
       "PA_GROW_DOWN", "PA_SCAN_VERT", "PA_SCROLL_DOWN_LEFT", "PA_WIPE_CURSOR",
       "PA_OPENING", "PA_CLOSING_CURSOR", "PA_SCROLL_DOWN_RIGHT",
       "PA_SCROLL_RIGHT", "PA_SCROLL_DOWN" >>
effect_init ==
    << "PA_PRINT", "PA_SCROLL_LEFT", "PA_WIPE", "PA_SCROLL_UP_LEFT",
       "PA_SCROLL_UP", "PA_OPENING_CURSOR", "PA_GROW_UP", "PA_MESH",
       "PA_SCROLL_UP_RIGHT", "PA_CLOSING", "PA_RANDOM", "PA_GROW_DOWN",
       "PA_SCAN_VERT", "PA_SCROLL_DOWN_LEFT", "PA_WIPE_CURSOR", "PA_OPENING",
       "PA_CLOSING_CURSOR", "PA_SCROLL_DOWN_RIGHT", "PA_SCROLL_RIGHT",
       "PA_SCROLL_DOWN" >>

\* Indices the application selects effects with: the second and the last.
FXSamples == {1, Len(effect_init) - 1}

----------------------------------------------------------------------------
(* ESP_ticker.h: runtime state pool *)

BoolCells == {"Verbose", "LittleFSmounted", "timeSynced"}
TimerCells == {"timeTimer", "ntpTimer", "weerTimer", "newsapiTimer",
               "revisionTimer"}
U32Cells == TimerCells \cup {"nrReboots"}
IntCells ==
    {"msgType", "newsMsgID", "localMsgID", "valueLDR",
     "valueIntensity", "settingLocalMaxMsg", "settingTextSpeed",
     "settingMaxIntensity", "settingLDRlowOffset", "settingLDRhighOffset",
     "settingWeerLiveInterval", "settingNewsInterval", "settingNewsMaxMsg",
     "now"}
\* FSInfo LittleFSinfo and struct tm timeinfo: all members zero.
StructCells == {"LittleFSinfo", "timeinfo"}
StringCells == {"lastReset"}
StringArrayCells == {"noWords"}

\* char name[N]: the declared number of elements of every character array.
SizeOf ==
    [cDate |-> 15, cTime |-> 10, cMsg |-> NEWS_SIZE,
     tempMessage |-> LOCAL_SIZE, actMessage |-> NEWS_SIZE, timeMsg |-> 20,
     onTickerMessage |-> LOCAL_SIZE, fileMessage |-> LOCAL_SIZE,
     fChar |-> 10, settingHostname |-> 41,
     settingNewsNoWords |-> LOCAL_SIZE, settingWeerLiveAUTH |-> 51,
     settingWeerLiveLocation |-> 51, settingNewsAUTH |-> 51]
CharArrays == DOMAIN SizeOf

Cells == BoolCells \cup U32Cells \cup IntCells \cup StructCells \cup StringCells
         \cup StringArrayCells \cup CharArrays

\* A character array is kept as its declared size and the text before its
\* first NUL; the elements after the text are NUL.
CharArray(n, text) == [size |-> n, str |-> text]

\* Static storage: zero-initialization, then the constant initializers
\* (false, 0, "", {}), which all write zeros as well.
ZeroInit_garbage ==
    [c \in Cells |->
        IF c \in BoolCells THEN FALSE
        ELSE IF c \in U32Cells
             THEN (IF c = "nrReboots" THEN U32(0, 1) ELSE U32(0, 0))
        ELSE IF c \in IntCells THEN 0
        ELSE IF c \in StructCells THEN 0
        ELSE IF c \in StringCells THEN <<>>
        ELSE IF c \in StringArrayCells
             THEN [i \in 1..(MAX_NO_NO_WORDS + 1) |-> <<>>]
        ELSE CharArray(SizeOf[c], <<>>)]
ZeroInit ==
    [c \in Cells |->
        IF c \in BoolCells THEN FALSE
        ELSE IF c \in U32Cells THEN U32(0, 0)
        ELSE IF c \in IntCells THEN 0
        ELSE IF c \in StructCells THEN 0
        ELSE IF c \in StringCells THEN <<>>
        ELSE IF c \in StringArrayCells
             THEN [i \in 1..(MAX_NO_NO_WORDS + 1) |-> <<>>]
        ELSE CharArray(SizeOf[c], <<>>)]

\* uint32_t ntpTimer = millis() + 30000;
\* unsigned long + int: the sum is taken modulo 2^32.
NtpTimerInit_nowrap(m) ==
    U32(m.hi + (m.lo + 30000) \div 65536, (m.lo + 30000) % 65536)
NtpTimerInit(m) ==
    U32((m.hi + (m.lo + 30000) \div 65536) % 65536, (m.lo + 30000) % 65536)

\* Storing a text and its terminator into a character array, within its
\* declared size.
WriteBuffer_resize(buf, text) == CharArray(Len(text) + 1, text)
WriteBuffer(buf, text) == CharArray(buf.size, text)

----------------------------------------------------------------------------
(* Debug.h: the macros *)

\* A statement of a macro body: a call on Serial with the macro's arguments.
SerialCall(op, args) == [obj |-> "Serial", op |-> op, args |-> args]

\* A store of a text into a character array of the pool.
Store(cell, text) == [obj |-> cell, op |-> "store", args |-> text]

\* ({ s1; ...; sn; }): a GNU statement expression runs its statements and
\* yields the value of the last one.
StmtExpr_discard(stmts) == [stmts |-> stmts, yields |-> 0]
StmtExpr(stmts) == [stmts |-> stmts, yields |-> Len(stmts)]

Debug(args) == StmtExpr(<<SerialCall("print", args)>>)
Debugln(args) == StmtExpr(<<SerialCall("println", args)>>)

Debugf_viaCMsg(args) ==
    StmtExpr(<<Store("cMsg", args), SerialCall("printf", args)>>)
Debugf(args) == StmtExpr(<<SerialCall("printf", args)>>)

DebugFlush_empty == StmtExpr(<<>>)
DebugFlush == StmtExpr(<<SerialCall("flush", <<>>)>>)

DebugT_timestamp(args) ==
    StmtExpr(<<SerialCall("printf", <<PCT, "a">>), Debug(args)>>)
DebugT(args) == StmtExpr(<<Debug(args)>>)
DebugTln(args) == StmtExpr(<<Debugln(args)>>)
DebugTf(args) == StmtExpr(<<Debugf(args)>>)

----------------------------------------------------------------------------
(* The serial transport *)

\* printf: a format that is a conversion specification is replaced by the
\* values that follow it; any other format is written as it is.
Format(args) == IF Head(args) = PCT THEN Tail(args) ELSE <<Head(args)>>

\* The bytes a call asks the transport to write; println adds CR LF.
Render(op, args) ==
    IF op = "print" THEN args
    ELSE IF op = "println" THEN args \o <<"CR", "LF">>
    ELSE IF op = "printf" THEN Format(args)
    ELSE <<>>

\* What a call on Serial evaluates to: print, println and printf return the
\* number of bytes written (size_t), flush returns nothing (void).
SerialReturn(op, n) == IF op = "flush" THEN <<>> ELSE <<n>>

\* One call on Serial.  A write is accepted whole, or refused when the
\* transport fails; flush returns once the output buffer has been
\* transmitted.
SerialExec(s, st, ok) ==
    LET text == Render(s.op, s.args)
        took == IF ok THEN text ELSE <<>>
        call == [op |-> s.op, args |-> s.args]
    IN  IF s.op = "flush"
        THEN [st EXCEPT !.con = st.con \o st.tx, !.tx = <<>>,
                        !.calls = Append(st.calls, call),
                        !.value = SerialReturn(s.op, 0)]
        ELSE [st EXCEPT !.tx = st.tx \o took, !.off = st.off \o text,
                        !.acc = st.acc \o took,
                        !.calls = Append(st.calls, call),
                        !.value = SerialReturn(s.op, Len(took))]

----------------------------------------------------------------------------
(* Running a macro body *)

RECURSIVE RunStmts(_, _, _, _)

RunExpr(e, st, ok) ==
    LET r == RunStmts(e.stmts, 1, [st EXCEPT !.rets = <<>>], ok)
    IN  [r EXCEPT !.value = IF e.yields = 0 THEN <<>> ELSE r.rets[e.yields],
                  !.rets = st.rets]

RunStmt(s, st, ok) ==
    IF "stmts" \in DOMAIN s THEN RunExpr(s, st, ok)
    ELSE IF s.obj = "Serial" THEN SerialExec(s, st, ok)
    ELSE [st EXCEPT !.pool[s.obj] = WriteBuffer(st.pool[s.obj], s.args),
                    !.value = <<>>]

RunStmts(stmts, i, st, ok) ==
    IF i > Len(stmts) THEN st
    ELSE LET r == RunStmt(stmts[i], st, ok)
         IN  RunStmts(stmts, i + 1, [r EXCEPT !.rets = Append(r.rets, r.value)],
                      ok)

----------------------------------------------------------------------------
(* Startup: static initialization in the order of the definitions *)

NoOp == [kind |-> "none", macro |-> "", args |-> <<>>, calls |-> <<>>,
         value |-> <<>>, taken |-> 0]

Init ==
    /\ pc = "P"
    /\ bootMillis = U32(0, 0)
    /\ P = P_zero
    /\ effect = effect_init
    /\ inFX = 0
    /\ outFX = 0
    /\ pool = ZeroInit
    /\ txBuffer = <<>>
    /\ console = <<>>
    /\ offered = <<>>
    /\ accepted = <<>>
    /\ last = NoOp
    /\ nOps = 0

Running == pc = "run"

\* MD_Parola P = MD_Parola(HARDWARE_TYPE, CS_PIN, MAX_DEVICES);
InitP ==
    /\ pc = "P"
    /\ P' = P_init
    /\ pc' = "lastReset"
    /\ UNCHANGED <<bootMillis, effect, inFX, outFX, pool, txBuffer, console,
                   offered, accepted, last, nOps>>

\* String lastReset = "";
InitLastReset ==
    /\ pc = "lastReset"
    /\ pool' = [pool EXCEPT !["lastReset"] = <<>>]
    /\ pc' = "ntpTimer"
    /\ UNCHANGED <<bootMillis, P, effect, inFX, outFX, txBuffer, console,
                   offered, accepted, last, nOps>>

\* uint32_t ntpTimer = millis() + 30000;
InitNtpTimer(m) ==
    /\ pc = "ntpTimer"
    /\ bootMillis' = m
    /\ pool' = [pool EXCEPT !["ntpTimer"] = NtpTimerInit(m)]
    /\ pc' = "noWords"
    /\ UNCHANGED <<P, effect, inFX, outFX, txBuffer, console, offered,
                   accepted, last, nOps>>

\* String noWords[MAX_NO_NO_WORDS+1];
InitNoWords ==
    /\ pc = "noWords"
    /\ pool' = [pool EXCEPT !["noWords"] =
                    [i \in 1..(MAX_NO_NO_WORDS + 1) |-> <<>>]]
    /\ pc' = "run"
    /\ UNCHANGED <<bootMillis, P, effect, inFX, outFX, txBuffer, console,
                   offered, accepted, last, nOps>>

----------------------------------------------------------------------------
(* Running: the debug macros *)

\* One invocation of a macro whose expansion is e; ok tells whether the
\* transport accepts the writes of this invocation.
Invoke(macro, e, args, ok) ==
    /\ Running
    /\ nOps < MaxOps
    /\ LET st == [tx |-> txBuffer, con |-> console, off |-> offered,
                  acc |-> accepted, pool |-> pool, calls |-> <<>>,
                  rets |-> <<>>, value |-> <<>>]
           r == RunExpr(e, st, ok)
       IN  /\ txBuffer' = r.tx
           /\ console' = r.con
           /\ offered' = r.off
           /\ accepted' = r.acc
           /\ pool' = r.pool
           /\ last' = [kind |-> "debug", macro |-> macro, args |-> args,
                       calls |-> r.calls, value |-> r.value,
                       taken |-> Len(r.acc) - Len(accepted)]
    /\ nOps' = nOps + 1
    /\ UNCHANGED <<pc, bootMillis, P, effect, inFX, outFX>>

DoDebug(args, ok) == Invoke("Debug", Debug(args), args, ok)
DoDebugln(args, ok) == Invoke("Debugln", Debugln(args), args, ok)
DoDebugf(args, ok) == Invoke("Debugf", Debugf(args), args, ok)
DoDebugFlush == Invoke("DebugFlush", DebugFlush, <<>>, TRUE)
DoDebugT(args, ok) == Invoke("DebugT", DebugT(args), args, ok)
DoDebugTln(args, ok) == Invoke("DebugTln", DebugTln(args), args, ok)
DoDebugTf(args, ok) == Invoke("DebugTf", DebugTf(args), args, ok)

\* The UART transmits the oldest byte of the output buffer.
UartTransmit ==
    /\ txBuffer # <<>>
    /\ console' = Append(console, Head(txBuffer))
    /\ txBuffer' = Tail(txBuffer)
    /\ UNCHANGED <<pc, bootMillis, P, effect, inFX, outFX, pool, offered,
                   accepted, last, nOps>>

----------------------------------------------------------------------------
(* Running: the application's stores into the state pool and the selectors *)

AppOp(kind) == [NoOp EXCEPT !.kind = kind]

FrameOfPoolStore ==
    UNCHANGED <<pc, bootMillis, P, effect, inFX, outFX, txBuffer, console,
                offered, accepted>>

\* A text and its terminator stored into a character array that holds it.
WriteCharArray(c, text) ==
    /\ Running
    /\ nOps < MaxOps
    /\ Len(text) + 1 <= pool[c].size
    /\ pool' = [pool EXCEPT ![c] = WriteBuffer(pool[c], text)]
    /\ last' = AppOp("write")
    /\ nOps' = nOps + 1
    /\ FrameOfPoolStore

WriteBool(c, v) ==
    /\ Running
    /\ nOps < MaxOps
    /\ pool' = [pool EXCEPT ![c] = v]
    /\ last' = AppOp("write")
    /\ nOps' = nOps + 1
    /\ FrameOfPoolStore

WriteU32(c, v) ==
    /\ Running
    /\ nOps < MaxOps
    /\ pool' = [pool EXCEPT ![c] = v]
    /\ last' = AppOp("write")
    /\ nOps' = nOps + 1
    /\ FrameOfPoolStore

WriteInt(c, v) ==
    /\ Running
    /\ nOps < MaxOps
    /\ pool' = [pool EXCEPT ![c] = v]
    /\ last' = AppOp("write")
    /\ nOps' = nOps + 1
    /\ FrameOfPoolStore

WriteString(c, text) ==
    /\ Running
    /\ nOps < MaxOps
    /\ pool' = [pool EXCEPT ![c] = text]
    /\ last' = AppOp("write")
    /\ nOps' = nOps + 1
    /\ FrameOfPoolStore

WriteNoWord(i, text) ==
    /\ Running
    /\ nOps < MaxOps
    /\ pool' = [pool EXCEPT !["noWords"][i] = text]
    /\ last' = AppOp("write")
    /\ nOps' = nOps + 1
    /\ FrameOfPoolStore

SetInFX(i) ==
    /\ Running
    /\ nOps < MaxOps
    /\ inFX' = i
    /\ last' = AppOp("select")
    /\ nOps' = nOps + 1
    /\ UNCHANGED <<pc, bootMillis, P, effect, outFX, pool, txBuffer, console,
                   offered, accepted>>

SetOutFX(i) ==
    /\ Running
    /\ nOps < MaxOps
    /\ outFX' = i
    /\ last' = AppOp("select")
    /\ nOps' = nOps + 1
    /\ UNCHANGED <<pc, bootMillis, P, effect, inFX, pool, txBuffer, console,
                   offered, accepted>>

----------------------------------------------------------------------------

Next ==
    \/ InitP
    \/ InitLastReset
    \/ \E m \in ClockValues : InitNtpTimer(m)
    \/ InitNoWords
    \/ \E args \in PrintArgs, ok \in BOOLEAN : DoDebug(args, ok)
    \/ \E args \in PrintlnArgs, ok \in BOOLEAN : DoDebugln(args, ok)
    \/ \E args \in PrintfArgs, ok \in BOOLEAN : DoDebugf(args, ok)
    \/ DoDebugFlush
    \/ \E args \in PrintArgs, ok \in BOOLEAN : DoDebugT(args, ok)
    \/ \E args \in PrintlnArgs, ok \in BOOLEAN : DoDebugTln(args, ok)
    \/ \E args \in PrintfArgs, ok \in BOOLEAN : DoDebugTf(args, ok)
    \/ UartTransmit
    \/ \E c \in CharArrays, text \in Texts : WriteCharArray(c, text)
    \/ \E c \in BoolCells, v \in BOOLEAN : WriteBool(c, v)
    \/ \E c \in U32Cells, v \in U32Samples : WriteU32(c, v)
    \/ \E c \in IntCells, v \in IntSamples : WriteInt(c, v)
    \/ \E c \in StringCells, text \in Texts : WriteString(c, text)
    \/ \E i \in {1, MAX_NO_NO_WORDS + 1}, text \in Texts : WriteNoWord(i, text)
    \/ \E i \in FXSamples : SetInFX(i)
    \/ \E i \in FXSamples : SetOutFX(i)

Spec == Init /\ [][Next]_vars

----------------------------------------------------------------------------
(* Properties *)

\* The transport operation each macro is documented to forward to.
C1_Target ==
    [Debug |-> "print", DebugT |-> "print", Debugln |-> "println",
     DebugTln |-> "println", Debugf |-> "printf", DebugTf |-> "printf",
     DebugFlush |-> "flush"]

\* C1: one invocation of a debug macro makes exactly one call on Serial, the
\* operation the macro maps to, with the macro's arguments in their order;
\* the T variants make the same call as the plain ones.
C1_ForwardsUnmodified ==
    last.kind = "debug" =>
        last.calls = <<[op |-> C1_Target[last.macro], args |-> last.args]>>

C1_Witness ==
    /\ last.kind = "debug"
    /\ last.macro = "DebugTf"
    /\ last.args = <<PCT, "b">>
    /\ last.calls = <<[op |-> "printf", args |-> <<PCT, "b">>]>>

FlushReturned == last.kind = "debug" /\ last.macro = "DebugFlush"

C4_DebugLeavesPoolUnchanged ==
    [][(nOps' # nOps /\ last'.kind = "debug") =>
            (pool' = pool /\ inFX' = inFX /\ outFX' = outFX
             /\ effect' = effect /\ P' = P /\ pc' = pc)]_vars

C4_Witness ==
    /\ last.kind = "debug"
    /\ last.macro = "Debugf"
    /\ pool["Verbose"] = TRUE
    /\ accepted # <<>>

\* C5: every character array of the pool has its declared number of
\* elements in every reachable state, and noWords has 21 entries.
C5_Capacities ==
    /\ pool["cMsg"].size = 512
    /\ pool["actMessage"].size = 512
    /\ pool["tempMessage"].size = 255
    /\ pool["onTickerMessage"].size = 255
    /\ pool["fileMessage"].size = 255
    /\ pool["settingNewsNoWords"].size = 255
    /\ pool["cDate"].size = 15
    /\ pool["cTime"].size = 10
    /\ pool["timeMsg"].size = 20
    /\ pool["fChar"].size = 10
    /\ pool["settingHostname"].size = 41
    /\ pool["settingWeerLiveAUTH"].size = 51
    /\ pool["settingWeerLiveLocation"].size = 51
    /\ pool["settingNewsAUTH"].size = 51
    /\ Len(pool["noWords"]) = 21

C5_Witness ==
    /\ last.kind = "write"
    /\ pool["cMsg"] = [size |-> 512, str |-> <<"b", "a">>]
    /\ pool["fChar"] = [size |-> 10, str |-> <<"a">>]

\* C7: in every reachable state the catalog holds the 20 declared effects,
\* pairwise distinct, in the declared order; setting a selector does not
\* touch it.
C7_CatalogStable ==
    /\ effect =
         << "PA_PRINT", "PA_SCROLL_LEFT", "PA_WIPE", "PA_SCROLL_UP_LEFT",
            "PA_SCROLL_UP", "PA_OPENING_CURSOR", "PA_GROW_UP", "PA_MESH",
            "PA_SCROLL_UP_RIGHT", "PA_CLOSING", "PA_RANDOM", "PA_GROW_DOWN",
            "PA_SCAN_VERT", "PA_SCROLL_DOWN_LEFT", "PA_WIPE_CURSOR",
            "PA_OPENING", "PA_CLOSING_CURSOR", "PA_SCROLL_DOWN_RIGHT",
            "PA_SCROLL_RIGHT", "PA_SCROLL_DOWN" >>
    /\ Len(effect) = 20
    /\ Cardinality({effect[i] : i \in 1..Len(effect)}) = 20

C7_Witness ==
    /\ last.kind = "select"
    /\ inFX = 19
    /\ outFX = 1
    /\ effect[inFX + 1] = "PA_SCROLL_DOWN"

\* C8: the display configuration is 8 devices, chip select 15, speed 50,
\* hardware FC16_HW; once constructed, P holds (FC16_HW, 15, 8) in every
\* reachable state.
C8_DisplayConfig ==
    /\ MAX_DEVICES = 8
    /\ CS_PIN = 15
    /\ MAX_SPEED = 50
    /\ HARDWARE_TYPE = "FC16_HW"
    /\ pc # "P" =>
          P = [hardware |-> "FC16_HW", csPin |-> 15, numDevices |-> 8]

C8_Witness ==
    /\ Running
    /\ nOps = 2
    /\ last.kind = "write"
    /\ P.csPin = 15
    /\ P.numDevices = 8

\* C9: application operations run only after startup has completed, startup
\* is never entered again, and when startup completes every cell other than
\* ntpTimer holds false, zero or the empty string.
C9_StartupValues ==
    /\ nOps > 0 => Running
    /\ (Running /\ nOps = 0) =>
          /\ \A c \in BoolCells : pool[c] = FALSE
          /\ \A c \in U32Cells \ {"ntpTimer"} : pool[c] = [hi |-> 0, lo |-> 0]
          /\ \A c \in IntCells \cup StructCells : pool[c] = 0
          /\ pool["lastReset"] = <<>>
          /\ \A i \in 1..21 : pool["noWords"][i] = <<>>
          /\ \A c \in CharArrays : pool[c].str = <<>>

C9_Witness ==
    /\ Running
    /\ nOps = 0
    /\ P # P_zero
    /\ pool["nrReboots"] = [hi |-> 0, lo |-> 0]
    /\ pool["tempMessage"].str = <<>>

\* C10: when startup completes ntpTimer holds the clock value read by its
\* initializer plus 30000, modulo 2^32, and the other four timers hold 0; a
\* clock value within 30000 of 2^32 leaves ntpTimer below the clock value.
C10_NtpTimerDeadline ==
    (Running /\ nOps = 0) =>
        LET b == bootMillis
            t == pool["ntpTimer"]
        IN  /\ \A c \in {"timeTimer", "weerTimer", "newsapiTimer",
                         "revisionTimer"} : pool[c] = [hi |-> 0, lo |-> 0]
            /\ t.hi \in 0..65535
            /\ t.lo \in 0..65535
            /\ IF b.hi = 65535 /\ b.lo >= 35536
               THEN /\ t.hi = 0
                    /\ t.lo = b.lo - 35536
                    /\ t.hi < b.hi
               ELSE (t.hi - b.hi) * 65536 + (t.lo - b.lo) = 30000

C10_Witness ==
    /\ Running
    /\ nOps = 0
    /\ bootMillis = [hi |-> 65535, lo |-> 65535]
    /\ pool["ntpTimer"] = [hi |-> 0, lo |-> 29999]

====
